---- MODULE Spec2Model ----
(***************************************************************************)
(* Model of the card meta-tag proxy (src/src/main.rs).                     *)
(*                                                                         *)
(* Text is modelled as a sequence of one-character strings, so that        *)
(* escaping, joining and substring replacement are computed character by   *)
(* character, as the code computes them.  Option<T> is a sequence of       *)
(* length 0 (None) or 1 (Some(x)).                                         *)
(***************************************************************************)
EXTENDS Integers, Sequences, FiniteSets, TLC

VARIABLES index_html, config, pc, url, remaining, acc, response, args, ret

vars ==
    <<index_html, config, pc, url, remaining, acc, response, args, ret>>

(***************************************************************************)
(* Bounds.                                                                 *)
(***************************************************************************)
\* longest property / content text given to create_meta in SpecEscape
MaxLen ==
    2

\* largest number of body tokens one chunk of the backend response carries
MaxChunk ==
    2

\* the concurrent requests in flight
Requests ==
    {"r1", "r2"}

None ==
    <<>>

Some(x) ==
    <<x>>

(***************************************************************************)
(* String literals of the source.                                          *)
(***************************************************************************)
MetaOpen ==
    <<"<", "m", "e", "t", "a", " ", "p", "r", "o", "p", "e", "r", "t", "y", "=", "\"">>

MetaMid ==
    <<"\"", " ", "c", "o", "n", "t", "e", "n", "t", "=", "\"">>

MetaClose ==
    <<"\"", " ", "/", ">">>

Quot ==
    <<"&", "q", "u", "o", "t", ";">>

Amp ==
    <<"&", "a", "m", "p", ";">>

Apos ==
    <<"&", "#", "x", "2", "7", ";">>

Lt ==
    <<"&", "l", "t", ";">>

Gt ==
    <<"&", "g", "t", ";">>

P_title ==
    <<"t", "i", "t", "l", "e">>

P_description ==
    <<"d", "e", "s", "c", "r", "i", "p", "t", "i", "o", "n">>

P_og_site_name ==
    <<"o", "g", ":", "s", "i", "t", "e", "_", "n", "a", "m", "e">>

P_og_type ==
    <<"o", "g", ":", "t", "y", "p", "e">>

P_og_title ==
    <<"o", "g", ":", "t", "i", "t", "l", "e">>

P_og_description ==
    <<"o", "g", ":", "d", "e", "s", "c", "r", "i", "p", "t", "i", "o", "n">>

P_og_url ==
    <<"o", "g", ":", "u", "r", "l">>

P_og_image ==
    <<"o", "g", "_", "i", "m", "a", "g", "e">>

P_published ==
    <<"a", "r", "t", "i", "c", "l", "e", ":", "p", "u", "b", "l", "i", "s", "h", "e", "d", "_", "t", "i", "m", "e">>

P_modified ==
    <<"a", "r", "t", "i", "c", "l", "e", ":", "m", "o", "d", "i", "f", "i", "e", "d", "_", "t", "i", "m", "e">>

P_twitter_card ==
    <<"t", "w", "i", "t", "t", "e", "r", ":", "c", "a", "r", "d">>

P_twitter_site ==
    <<"t", "w", "i", "t", "t", "e", "r", ":", "s", "i", "t", "e">>

P_twitter_title ==
    <<"t", "w", "i", "t", "t", "e", "r", ":", "t", "i", "t", "l", "e">>

P_twitter_description ==
    <<"t", "w", "i", "t", "t", "e", "r", ":", "d", "e", "s", "c", "r", "i", "p", "t", "i", "o", "n">>

P_twitter_image ==
    <<"t", "w", "i", "t", "t", "e", "r", ":", "i", "m", "a", "g", "e">>

V_article ==
    <<"a", "r", "t", "i", "c", "l", "e">>

V_summary ==
    <<"s", "u", "m", "m", "a", "r", "y">>

V_summary_large ==
    <<"s", "u", "m", "m", "a", "r", "y", "_", "l", "a", "r", "g", "e", "_", "i", "m", "a", "g", "e">>

V_site ==
    <<"@", "h", "o", "w", "t", "o", "c", "a", "r", "d", "s", "_", "i", "o">>

OpenPath ==
    <<"/", "o", "p", "e", "n", "/">>

Slash ==
    <<"/">>

HeadClose ==
    <<"<", "/", "h", "e", "a", "d", ">">>

EmptyDiv ==
    <<"<", "d", "i", "v", ">", "<", "/", "d", "i", "v", ">">>

ApiCards ==
    <<"/", "a", "p", "i", "/", "c", "a", "r", "d", "s", "/">>

MetaPath ==
    <<"/", "m", "e", "t", "a", "/">>

(***************************************************************************)
(* htmlescape::encode_minimal, as create_meta uses it: the five characters *)
(* " & ' < > are replaced by their entities, every other character is      *)
(* copied.                                                                 *)
(***************************************************************************)
encode_char(c) ==
    CASE c = "\"" -> Quot
      [] c = "&" -> Amp
      [] c = "'" -> Apos
      [] c = "<" -> Lt
      [] c = ">" -> Gt
      [] OTHER -> <<c>>

RECURSIVE encode_from(_, _)
encode_from(s, i) ==
    IF i > Len(s) THEN <<>> ELSE encode_char(s[i]) \o encode_from(s, i + 1)

\* a plausible slip: the attribute quote is missing from the entity table
RECURSIVE encode_noquote_from(_, _)
encode_noquote_from(s, i) ==
    IF i > Len(s) THEN <<>>
    ELSE (IF s[i] = "\"" THEN <<s[i]>> ELSE encode_char(s[i]))
             \o encode_noquote_from(s, i + 1)

encode_minimal_noquote(s) ==
    encode_noquote_from(s, 1)

encode_minimal(s) ==
    encode_from(s, 1)

create_meta(prop, content) ==
    MetaOpen \o encode_minimal(prop) \o MetaMid \o encode_minimal(content) \o MetaClose

(***************************************************************************)
(* Display of an integer (the {} of format! applied to i32 / u32).         *)
(***************************************************************************)
Digits ==
    <<"0", "1", "2", "3", "4", "5", "6", "7", "8", "9">>

RECURSIVE nat_to_string(_)
nat_to_string(n) ==
    IF n < 10 THEN <<Digits[n + 1]>>
    ELSE nat_to_string(n \div 10) \o <<Digits[(n % 10) + 1]>>

to_string(n) ==
    IF n < 0 THEN <<"-">> \o nat_to_string(0 - n) ELSE nat_to_string(n)

(***************************************************************************)
(* Config::meta_for_card: the fifteen entries of the vec!, then the fold.  *)
(***************************************************************************)
meta_tags(cfg, card) ==
    LET image(u) == cfg.image_url \o Slash \o u
        \* (card.preview_url.clone()).map_or(default, |url| ...)
        og_image == IF card.preview_url = None THEN <<>>
                    ELSE create_meta(P_og_image, image(card.preview_url[1]))
        twitter_card == IF card.preview_url = None THEN V_summary
                        ELSE V_summary_large
        twitter_image == IF card.preview_url = None THEN <<>>
                         ELSE create_meta(P_twitter_image, image(card.preview_url[1]))
    IN  << create_meta(P_title, card.title),
           create_meta(P_description, card.description),
           create_meta(P_og_site_name, cfg.sitename),
           create_meta(P_og_type, V_article),
           create_meta(P_og_title, card.title),
           create_meta(P_og_description, card.description),
           create_meta(P_og_url, cfg.public_url \o OpenPath \o to_string(card.id)),
           og_image,
           create_meta(P_published, card.created_at),
           create_meta(P_modified, card.updated_at),
           create_meta(P_twitter_card, twitter_card),
           create_meta(P_twitter_site, V_site),
           create_meta(P_twitter_title, card.title),
           create_meta(P_twitter_description, card.description),
           twitter_image >>

\* .iter().fold(String::new(), |acc, meta| format!("{}\n{}", acc, meta))
RECURSIVE fold(_, _, _)
fold(a, v, i) ==
    IF i > Len(v) THEN a ELSE fold(a \o <<"\n">> \o v[i], v, i + 1)

meta_for_card(cfg, card) ==
    fold(<<>>, meta_tags(cfg, card), 1)

backend_card_url(cfg, id) ==
    cfg.backend_url \o ApiCards \o to_string(id) \o MetaPath

(***************************************************************************)
(* str::replace: every non-overlapping occurrence of from, left to right.  *)
(***************************************************************************)
starts_with(s, i, pat) ==
    /\ i + Len(pat) - 1 <= Len(s)
    /\ \A k \in 1..Len(pat) : s[i + k - 1] = pat[k]

RECURSIVE replace_from(_, _, _, _)
replace_from(s, i, from, to) ==
    IF i > Len(s) THEN <<>>
    ELSE IF starts_with(s, i, from)
         THEN to \o replace_from(s, i + Len(from), from, to)
         ELSE <<s[i]>> \o replace_from(s, i + 1, from, to)

replace(s, from, to) ==
    replace_from(s, 1, from, to)

(***************************************************************************)
(* The backend's response body.  The wire bytes are abstracted to tokens:  *)
(* one token per member of the top-level JSON object, or a junk token for  *)
(* bytes that are not JSON.  A JSON value is a tagged record; an object    *)
(* holds its members in order.                                             *)
(***************************************************************************)
JStr(s) ==
    [t |-> "str", s |-> s]

JBool(b) ==
    [t |-> "bool", b |-> b]

JNum(n) ==
    [t |-> "num", n |-> n]

JNull ==
    [t |-> "null"]

JObj(members) ==
    [t |-> "obj", m |-> members]

Member(k, v) ==
    [k |-> k, v |-> v]

JunkToken ==
    [k |-> "", v |-> [t |-> "junk"]]

\* the value of the first member named key, if any
get(members, key) ==
    LET hits == {i \in 1..Len(members) : members[i].k = key}
    IN  IF hits = {} THEN None
        ELSE Some(members[CHOOSE i \in hits : \A j \in hits : i <= j].v)

is_bool(opt) ==
    opt /= None /\ opt[1].t = "bool"

is_string(opt) ==
    opt /= None /\ opt[1].t = "str"

I32Min ==
    (0 - 2147483647) - 1

I32Max ==
    2147483647

is_i32(opt) ==
    /\ opt /= None
    /\ opt[1].t = "num"
    /\ opt[1].n >= I32Min
    /\ opt[1].n <= I32Max

\* Option<String>: an absent member and null are None
is_opt_string(opt) ==
    opt = None \/ opt[1].t \in {"null", "str"}

\* #[serde(rename_all = "camelCase")] struct Card
is_Card(opt) ==
    /\ opt /= None
    /\ opt[1].t = "obj"
    /\ is_string(get(opt[1].m, "title"))
    /\ is_string(get(opt[1].m, "description"))
    /\ is_i32(get(opt[1].m, "id"))
    /\ is_string(get(opt[1].m, "createdAt"))
    /\ is_string(get(opt[1].m, "updatedAt"))
    /\ is_opt_string(get(opt[1].m, "previewUrl"))

Card(v) ==
    LET p == get(v.m, "previewUrl")
    IN  [title |-> get(v.m, "title")[1].s,
         description |-> get(v.m, "description")[1].s,
         id |-> get(v.m, "id")[1].n,
         created_at |-> get(v.m, "createdAt")[1].s,
         updated_at |-> get(v.m, "updatedAt")[1].s,
         preview_url |-> IF p = None \/ p[1].t = "null" THEN None ELSE Some(p[1].s)]

is_CardWrapper(opt) ==
    /\ opt /= None
    /\ opt[1].t = "obj"
    /\ is_Card(get(opt[1].m, "meta"))

CardWrapper(v) ==
    [meta |-> Card(get(v.m, "meta")[1])]

\* #[serde(untagged)] enum Answer<CardWrapper>: the variants are tried in
\* declaration order, Err first; members a variant does not name are ignored
Answer(members) ==
    IF is_bool(get(members, "ok")) /\ is_string(get(members, "error"))
    THEN Some([variant |-> "Err",
               ok |-> get(members, "ok")[1].b,
               error |-> get(members, "error")[1].s])
    ELSE IF is_bool(get(members, "ok")) /\ is_CardWrapper(get(members, "result"))
         THEN Some([variant |-> "Ok",
                    ok |-> get(members, "ok")[1].b,
                    result |-> CardWrapper(get(members, "result")[1])])
         ELSE None

\* serde_json::from_slice(&body): Some(answer) is Ok(answer), None is Err(_)
from_slice(body) ==
    IF body = <<>> \/ \E i \in 1..Len(body) : body[i] = JunkToken
    THEN None
    ELSE Answer(body)

\* match body { Ok(Answer::Ok { result, .. }) => Some(result.meta), _ => None }
decode(body) ==
    LET parsed == from_slice(body)
    IN  IF parsed /= None /\ parsed[1].variant = "Ok"
        THEN Some(parsed[1].result.meta)
        ELSE None

html_for(cfg, card) ==
    IF card /= None THEN meta_for_card(cfg, card[1]) ELSE EmptyDiv

HttpResponse(body) ==
    [status |-> 200, content_type |-> "text/html; charset=utf-8", body |-> body]

\* a plausible slip: a card that was not obtained answered as "not found"
render_not_found(storage, html) ==
    [HttpResponse(replace(storage, HeadClose, html \o HeadClose))
        EXCEPT !.status = IF html = EmptyDiv THEN 404 ELSE 200]

\* the second .map of the chain: inject the html into the shell and respond
render(storage, html) ==
    HttpResponse(replace(storage, HeadClose, html \o HeadClose))

\* a plausible slip: the fallback goes through the same injection as .map
or_else_inject(storage) ==
    render(storage, EmptyDiv)

\* the .or_else of the chain: respond with the shell as it is
or_else(storage) ==
    HttpResponse(storage)

(***************************************************************************)
(* Inputs: the startup values and the bodies a backend may send.           *)
(***************************************************************************)
ShellNoMarker ==
    <<"<", "h", "t", "m", "l", ">">>

ShellOneMarker ==
    <<"<", "h", "e", "a", "d", ">", "<", "/", "h", "e", "a", "d", ">", "<", "p", ">">>

ShellTwoMarkers ==
    <<"<", "/", "h", "e", "a", "d", ">", "-", "<", "/", "h", "e", "a", "d", ">">>

ShellPartial ==
    <<"<", "/", "h", "e", "a", "<", "/", "h", "e", "a", "d", ">">>

PublicUrl ==
    <<"/", "/", "p">>

ImageUrl ==
    <<"/", "/", "i">>

BackendUrl ==
    <<"/", "/", "b">>

SiteName ==
    <<"S", "&", "C">>

IndexPath ==
    <<"x">>

TitleA ==
    <<"T", "\"", "<">>

TitleB ==
    <<"t">>

DescA ==
    <<"D", "&">>

DescB ==
    <<">", "'">>

Created ==
    <<"2", "0", "2", "0">>

Updated ==
    <<"2", "0", "2", "1">>

Preview ==
    <<"i", ".", "p", "n", "g">>

NotFound ==
    <<"n", "o", "t", " ", "f", "o", "u", "n", "d">>

ImageUrl2 ==
    <<"/", "j", "\"">>

Shells ==
    {<<>>, ShellNoMarker, ShellOneMarker, ShellTwoMarkers, ShellPartial}

Config0 ==
    [public_url |-> PublicUrl, image_url |-> ImageUrl, backend_url |-> BackendUrl,
     sitename |-> SiteName, index_html_path |-> IndexPath]

Configs ==
    {Config0, [Config0 EXCEPT !.image_url = ImageUrl2]}

\* the card ids of the request path (u32)
CardIds ==
    {5, 42}

MetaWith(preview) ==
    JObj(<<Member("title", JStr(TitleA)), Member("description", JStr(DescA)),
           Member("id", JNum(5)), Member("createdAt", JStr(Created)),
           Member("updatedAt", JStr(Updated))>> \o preview)

ResultWith(preview) ==
    Member("result", JObj(<<Member("meta", MetaWith(preview))>>))

BodyOkPreview ==
    <<Member("ok", JBool(TRUE)), ResultWith(<<Member("previewUrl", JStr(Preview))>>)>>

BodyOkNoPreview ==
    <<Member("ok", JBool(TRUE)), ResultWith(<<>>)>>

BodyOkNullPreview ==
    <<ResultWith(<<Member("previewUrl", JNull)>>), Member("ok", JBool(TRUE))>>

BodyErr ==
    <<Member("ok", JBool(FALSE)), Member("error", JStr(NotFound))>>

BodyFalseResult ==
    <<Member("ok", JBool(FALSE)), ResultWith(<<>>)>>

BodyBoth ==
    <<Member("ok", JBool(TRUE)), ResultWith(<<>>), Member("error", JStr(NotFound))>>

BodyBadCard ==
    <<Member("ok", JBool(TRUE)),
      Member("result", JObj(<<Member("meta", JObj(<<Member("title", JStr(TitleA))>>))>>))>>

BodyBadId ==
    <<Member("ok", JBool(TRUE)),
      Member("result", JObj(<<Member("meta",
          JObj(<<Member("title", JStr(TitleA)), Member("description", JStr(DescA)),
                 Member("id", JStr(<<"5">>)), Member("createdAt", JStr(Created)),
                 Member("updatedAt", JStr(Updated))>>))>>))>>

BodyJunk ==
    <<JunkToken>>

BodyTruncated ==
    <<Member("ok", JBool(FALSE)), Member("error", JStr(NotFound)), JunkToken>>

Bodies ==
    {<<>>, BodyOkPreview, BodyOkNoPreview, BodyOkNullPreview, BodyErr,
     BodyFalseResult, BodyBoth, BodyBadCard, BodyBadId, BodyJunk, BodyTruncated}

(***************************************************************************)
(* The request handler `card`, one future chain per request.               *)
(*   idle -> sending -> reading -> done      (the .map path)               *)
(*                  \-> failed  <-/          (the .or_else path)           *)
(***************************************************************************)
\* card(): build the backend url from the path's card_id and send the GET
Request(r, id) ==
    /\ pc[r] = "idle"
    /\ pc' = [pc EXCEPT ![r] = "sending"]
    /\ url' = [url EXCEPT ![r] = backend_card_url(config, id)]
    /\ UNCHANGED <<index_html, config, remaining, acc, response, args, ret>>

\* .send() fails: .map_err(Error::from), every later step is skipped, .or_else
SendFails(r) ==
    /\ pc[r] = "sending"
    /\ pc' = [pc EXCEPT ![r] = "failed"]
    /\ url' = [url EXCEPT ![r] = <<>>]
    /\ response' = [response EXCEPT ![r] = Some(or_else(index_html))]
    /\ UNCHANGED <<index_html, config, remaining, acc, args, ret>>

\* .send() resolves: the body stream is folded into BytesMut::new()
SendOk(r, body) ==
    /\ pc[r] = "sending"
    /\ pc' = [pc EXCEPT ![r] = "reading"]
    /\ url' = [url EXCEPT ![r] = <<>>]
    /\ remaining' = [remaining EXCEPT ![r] = body]
    /\ acc' = [acc EXCEPT ![r] = <<>>]
    /\ UNCHANGED <<index_html, config, response, args, ret>>

\* one chunk of the stream: acc.extend_from_slice(&chunk)
Chunk(r, n) ==
    /\ pc[r] = "reading"
    /\ n <= Len(remaining[r])
    /\ acc' = [acc EXCEPT ![r] = @ \o SubSeq(remaining[r], 1, n)]
    /\ remaining' = [remaining EXCEPT ![r] = SubSeq(@, n + 1, Len(@))]
    /\ UNCHANGED <<index_html, config, pc, url, response, args, ret>>

\* the stream yields an error: .from_err(), then .or_else
StreamFails(r) ==
    /\ pc[r] = "reading"
    /\ pc' = [pc EXCEPT ![r] = "failed"]
    /\ response' = [response EXCEPT ![r] = Some(or_else(index_html))]
    /\ UNCHANGED <<index_html, config, url, remaining, acc, args, ret>>

\* a plausible slip: the rendered document is kept in the shared storage
BodyEnd_cache(r) ==
    /\ pc[r] = "reading"
    /\ remaining[r] = <<>>
    /\ pc' = [pc EXCEPT ![r] = "done"]
    /\ response' = [response EXCEPT ![r] =
           Some(render(index_html, html_for(config, decode(acc[r]))))]
    /\ index_html' = response'[r][1].body
    /\ UNCHANGED <<config, url, remaining, acc, args, ret>>

\* the stream ends: decode the body, build the html, inject it, respond
BodyEnd(r) ==
    /\ pc[r] = "reading"
    /\ remaining[r] = <<>>
    /\ pc' = [pc EXCEPT ![r] = "done"]
    /\ response' = [response EXCEPT ![r] =
           Some(render(index_html, html_for(config, decode(acc[r]))))]
    /\ UNCHANGED <<index_html, config, url, remaining, acc, args, ret>>

Init ==
    /\ index_html \in Shells
    /\ config = Config0
    /\ pc = [r \in Requests |-> "idle"]
    /\ url = [r \in Requests |-> <<>>]
    /\ remaining = [r \in Requests |-> <<>>]
    /\ acc = [r \in Requests |-> <<>>]
    /\ response = [r \in Requests |-> None]
    /\ args = <<>>
    /\ ret = None

Next ==
    \E r \in Requests :
        \/ \E id \in CardIds : Request(r, id)
        \/ SendFails(r)
        \/ \E body \in Bodies : SendOk(r, body)
        \/ \E n \in 1..MaxChunk : Chunk(r, n)
        \/ StreamFails(r)
        \/ BodyEnd(r)

Spec ==
    Init /\ [][Next]_vars

(***************************************************************************)
(* create_meta on its own: every pair of short texts over the characters   *)
(* the escaper treats specially, and one ordinary character.               *)
(***************************************************************************)
Alphabet ==
    {"<", ">", "&", "\"", "'", "a"}

Texts ==
    UNION {[1..k -> Alphabet] : k \in 0..MaxLen}

Idle ==
    /\ index_html = ShellOneMarker
    /\ pc = [r \in Requests |-> "idle"]
    /\ url = [r \in Requests |-> <<>>]
    /\ remaining = [r \in Requests |-> <<>>]
    /\ acc = [r \in Requests |-> <<>>]
    /\ response = [r \in Requests |-> None]

InitEscape ==
    /\ Idle
    /\ config = Config0
    /\ args \in Texts \X Texts
    /\ ret = None

CreateMeta ==
    /\ ret = None
    /\ ret' = Some(create_meta(args[1], args[2]))
    /\ UNCHANGED <<index_html, config, pc, url, remaining, acc, response, args>>

SpecEscape ==
    InitEscape /\ [][CreateMeta]_vars

(***************************************************************************)
(* Config::meta_for_card on its own, over a set of decoded cards.          *)
(***************************************************************************)
Cards ==
    [title : {TitleA, TitleB, <<>>},
     description : {DescA, DescB},
     id : {0 - 7, 0, 5, I32Max},
     created_at : {Created},
     updated_at : {Updated},
     preview_url : {None, Some(Preview), Some(<<>>)}]

InitMeta ==
    /\ Idle
    /\ config \in Configs
    /\ args \in {<<c>> : c \in Cards}
    /\ ret = None

MetaForCard ==
    /\ ret = None
    /\ ret' = Some(meta_for_card(config, args[1]))
    /\ UNCHANGED <<index_html, config, pc, url, remaining, acc, response, args>>

SpecMeta ==
    InitMeta /\ [][MetaForCard]_vars

(***************************************************************************)
(* Vocabulary of the properties.                                           *)
(***************************************************************************)
Occurrences(s, pat) ==
    {i \in 1..Len(s) : starts_with(s, i, pat)}

Contains(s, pat) ==
    Occurrences(s, pat) /= {}

\* the position of the first " at or after i, Len(s) + 1 when there is none
NextQuote(s, i) ==
    LET qs == {j \in i..Len(s) : s[j] = "\""}
    IN  IF qs = {} THEN Len(s) + 1 ELSE CHOOSE j \in qs : \A k \in qs : j <= k

Entities ==
    <<<<Quot, "\"">>, <<Amp, "&">>, <<Apos, "'">>, <<Lt, "<">>, <<Gt, ">">>>>

EntityAt(s, i) ==
    {e \in 1..Len(Entities) : starts_with(s, i, Entities[e][1])}

\* what an HTML parser reads back from an attribute value
RECURSIVE unescape_from(_, _)
unescape_from(s, i) ==
    IF i > Len(s) THEN <<>>
    ELSE IF EntityAt(s, i) /= {}
         THEN LET e == CHOOSE e \in EntityAt(s, i) : TRUE
              IN  <<Entities[e][2]>> \o unescape_from(s, i + Len(Entities[e][1]))
         ELSE <<s[i]>> \o unescape_from(s, i + 1)

unescape(s) ==
    unescape_from(s, 1)

\* no raw < > " in the value, and every & opens one of the five entities
NoRawSpecial(s) ==
    \A i \in 1..Len(s) :
        /\ s[i] \notin {"<", ">", "\""}
        /\ s[i] = "&" => EntityAt(s, i) /= {}

\* a tag as an HTML parser reads it: the two attribute values, each running
\* to the next ", or None when the text is not one meta tag of that form
ParseTag(tag) ==
    LET p1 == Len(MetaOpen) + 1
        q1 == NextQuote(tag, p1)
        p2 == q1 + Len(MetaMid)
        q2 == NextQuote(tag, p2)
    IN  IF /\ starts_with(tag, 1, MetaOpen)
           /\ starts_with(tag, q1, MetaMid)
           /\ starts_with(tag, q2, MetaClose)
           /\ q2 + Len(MetaClose) - 1 = Len(tag)
        THEN Some([property |-> SubSeq(tag, p1, q1 - 1),
                   content |-> SubSeq(tag, p2, q2 - 1)])
        ELSE None

\* the lines of a text, split at every newline
Lines(s) ==
    LET nl == {i \in 1..Len(s) : s[i] = "\n"}
        starts == {0} \cup nl
        ends == nl \cup {Len(s) + 1}
        nth(k) == CHOOSE p \in starts : Cardinality({q \in starts : q < p}) = k - 1
        end(p) == CHOOSE e \in ends : e > p /\ \A f \in ends : f > p => e <= f
    IN  [k \in 1..Cardinality(starts) |-> SubSeq(s, nth(k) + 1, end(nth(k)) - 1)]

SelectNonEmpty(v) ==
    SelectSeq(v, LAMBDA x : x /= <<>>)

\* the tags a fragment emits, parsed and read back
EmittedTags(fragment) ==
    LET ls == SelectNonEmpty(Lines(fragment))
    IN  [i \in 1..Len(ls) |->
            LET t == ParseTag(ls[i])
            IN  IF t = None THEN None
                ELSE Some([property |-> unescape(t[1].property),
                           content |-> unescape(t[1].content)])]

OgImageName ==
    <<"o", "g", ":", "i", "m", "a", "g", "e">>


ExpectedNames(card) ==
    <<P_title, P_description, P_og_site_name, P_og_type, P_og_title,
      P_og_description, P_og_url>>
    \o (IF card.preview_url /= None THEN <<OgImageName>> ELSE <<>>)
    \o <<P_published, P_modified, P_twitter_card, P_twitter_site, P_twitter_title,
         P_twitter_description>>
    \o (IF card.preview_url /= None THEN <<P_twitter_image>> ELSE <<>>)

\* s with ins put in front of the first occurrence of pat
InsertBeforeFirst(s, pat, ins) ==
    LET occ == Occurrences(s, pat)
        first == CHOOSE i \in occ : \A j \in occ : i <= j
    IN  IF occ = {} THEN s
        ELSE SubSeq(s, 1, first - 1) \o ins \o SubSeq(s, first, Len(s))

Terminal(r) ==
    pc[r] \in {"done", "failed"}

Body(r) ==
    response[r][1].body

\* the members of the body as a JSON object, when the body is one
IsJson(body) ==
    body /= <<>> /\ \A i \in 1..Len(body) : body[i] /= JunkToken

OkFlag(body) ==
    get(body, "ok")

(***************************************************************************)
(* Properties of the handler (specification Spec).                         *)
(***************************************************************************)
IsErrorEnvelope(body) ==
    /\ IsJson(body)
    /\ OkFlag(body) = Some(JBool(FALSE))
    /\ is_string(get(body, "error"))

\* C1: when the backend call completes with an error envelope
\* {"ok": false, "error": message}, the response is 200 OK and its body is
\* the unmodified shell, whatever the shell.
ErrorEnvelopeServesShell ==
    \A r \in Requests :
        pc[r] = "done" /\ IsErrorEnvelope(acc[r])
            => response[r][1].status = 200 /\ Body(r) = index_html

\* C2: when the backend call fails at the transport level (send fails, or
\* the body stream fails), the request ends with a 200 OK response whose
\* body is the unmodified shell.
TransportFailureServesShell ==
    \A r \in Requests :
        pc[r] = "failed"
            => /\ response[r] /= None
               /\ response[r][1].status = 200
               /\ Body(r) = index_html

TransportFailureWitness ==
    /\ Contains(index_html, HeadClose)
    /\ pc["r1"] = "failed" /\ acc["r1"] = <<>> /\ remaining["r1"] = <<>>
    /\ pc["r2"] = "failed" /\ acc["r2"] /= <<>> /\ remaining["r2"] /= <<>>
    /\ Body("r1") = index_html
    /\ Body("r2") = index_html

\* C3: a body that matches neither JSON shape (or is not JSON) gets the
\* response body a transport failure gets: the unmodified shell.
UndecodableServedAsTransportFailure ==
    \A r \in Requests :
        pc[r] = "done" /\ from_slice(acc[r]) = None
            => Body(r) = or_else(index_html).body /\ Body(r) = index_html

\* C4: every response of card is 200 OK with content type
\* text/html; charset=utf-8, and every finished request has a response.
AlwaysOkHtml ==
    \A r \in Requests :
        /\ Terminal(r) => response[r] /= None
        /\ response[r] /= None
            => /\ response[r][1].status = 200
               /\ response[r][1].content_type = "text/html; charset=utf-8"

AlwaysOkHtmlWitness ==
    /\ pc["r1"] = "done" /\ decode(acc["r1"]) /= None
    /\ pc["r2"] = "done" /\ decode(acc["r2"]) = None
    /\ response["r1"][1].status = 200
    /\ response["r2"][1].status = 200

\* C6: on the success path the fragment is inserted exactly once, in front
\* of the first </head> of the shell, and nowhere else.
FragmentOf(r) ==
    meta_for_card(config, decode(acc[r])[1])

InsertedOnceBeforeFirstMarker ==
    \A r \in Requests :
        (/\ pc[r] = "done"
         /\ OkFlag(acc[r]) = Some(JBool(TRUE))
         /\ decode(acc[r]) /= None
         /\ Contains(index_html, HeadClose))
            => /\ Body(r) = InsertBeforeFirst(index_html, HeadClose, FragmentOf(r))
               /\ Cardinality(Occurrences(Body(r), FragmentOf(r))) = 1

\* C9: card meta tags are rendered only from an envelope whose ok flag is
\* true and that does not match the error variant; an envelope with
\* ok = false never has card meta tags rendered from it.
OkFalseNeverRendered ==
    \A r \in Requests :
        pc[r] = "done" /\ Contains(Body(r), MetaOpen)
            => /\ IsJson(acc[r])
               /\ OkFlag(acc[r]) = Some(JBool(TRUE))
               /\ ~ is_string(get(acc[r], "error"))

\* C10: the shell and the configuration keep their startup values, a step
\* of one request leaves every other request's state alone, and two
\* requests with the same backend outcome get the same response.
ReqState(r) ==
    <<pc[r], url[r], remaining[r], acc[r], response[r]>>

SameOutcome(r, q) ==
    /\ Terminal(r)
    /\ pc[r] = pc[q]
    /\ pc[r] = "done" => acc[r] = acc[q]

RequestsIndependent ==
    [][/\ index_html' = index_html
       /\ config' = config
       /\ \A r \in Requests : \A q \in Requests \ {r} :
              ReqState(r)' /= ReqState(r) => ReqState(q)' = ReqState(q)
       /\ \A r \in Requests : \A q \in Requests :
              SameOutcome(r, q)' => response'[r] = response'[q]]_vars

RequestsIndependentWitness ==
    /\ Contains(index_html, HeadClose)
    /\ pc["r1"] = "done" /\ acc["r1"] = BodyOkPreview
    /\ pc["r2"] = "done" /\ acc["r2"] = BodyErr
    /\ Contains(Body("r1"), MetaOpen)
    /\ ~ Contains(Body("r2"), MetaOpen)

(***************************************************************************)
(* Properties of create_meta (specification SpecEscape).                   *)
(***************************************************************************)
\* C7: create_meta returns one meta tag whose two attribute values hold no
\* raw < > & or ", so that each value runs to the closing quote the
\* template wrote and reads back as the text that was given.
EscapedAttributes ==
    ret /= None =>
        LET t == ParseTag(ret[1])
        IN  /\ t /= None
            /\ NoRawSpecial(t[1].property)
            /\ NoRawSpecial(t[1].content)
            /\ unescape(t[1].property) = args[1]
            /\ unescape(t[1].content) = args[2]

EscapedAttributesWitness ==
    /\ ret /= None
    /\ args = << <<"\"", ">">>, <<"&", "\"">> >>
    /\ ParseTag(ret[1]) /= None

(***************************************************************************)
(* Properties of meta_for_card (specification SpecMeta).                   *)
(***************************************************************************)
\* C5: the emitted tags carry, in order, the property names title,
\* description, og:site_name, og:type, og:title, og:description, og:url,
\* [og:image], article:published_time, article:modified_time, twitter:card,
\* twitter:site, twitter:title, twitter:description, [twitter:image]; the
\* two image tags are emitted, with content {image_url}/{preview_url}, if
\* and only if preview_url is present.
TagNamesInOrder ==
    ret /= None =>
        LET card == args[1]
            tags == EmittedTags(ret[1])
            names == ExpectedNames(card)
        IN  /\ Len(tags) = Len(names)
            /\ \A i \in 1..Len(tags) :
                   /\ tags[i] /= None
                   /\ tags[i][1].property = names[i]
                   /\ names[i] \in {OgImageName, P_twitter_image}
                          => tags[i][1].content
                                 = config.image_url \o Slash \o card.preview_url[1]

\* C8: the fragment is the emitted tags joined by single newlines: it has
\* no empty line and exactly (number of emitted tags - 1) newlines.
JoinedBySingleNewlines ==
    ret /= None =>
        LET emitted == SelectNonEmpty(meta_tags(config, args[1]))
        IN  /\ ~ Contains(ret[1], <<"\n", "\n">>)
            /\ Cardinality(Occurrences(ret[1], <<"\n">>)) = Len(emitted) - 1

====
